---------------------------- MODULE Spec2Model ----------------------------
(***************************************************************************)
(* A model of the LC-3 virtual machine of src/main.c: the image loader,    *)
(* the memory with its memory-mapped keyboard registers, the register      *)
(* file, and read_and_execute_instruction with its sixteen opcodes and     *)
(* six trap vectors, driven by main's load loop and run loop.              *)
(*                                                                         *)
(* Words are the integers 0..65535; every C expression is evaluated in     *)
(* int and truncated to 16 bits where the code stores it in a uint16_t.    *)
(* The memory array is kept sparse: a cell that is not in the domain of    *)
(* the map holds 0, as the zero-initialised global does.  An access at     *)
(* address 0xFFFF lies behind the end of the array: a read there returns   *)
(* what was last stored there or any of OobWords, a store there is kept    *)
(* apart from reg and the array's cells, and oob records the access.       *)
(* main's --test branch (run_tests) is not part of the model.              *)
(***************************************************************************)
EXTENDS Integers, Sequences, FiniteSets, TLC

(***************************************************************************)
(* Program constants                                                       *)
(***************************************************************************)
UINT16_MAX == 65535

\* uint16_t memory[UINT16_MAX]: the number of cells of the array
MemSize == UINT16_MAX

R_R0 == 0
R_R7 == 7
R_PC == 8
R_COND == 9
R_COUNT == 10

OP_BR == 0
OP_ADD == 1
OP_LD == 2
OP_ST == 3
OP_JSR == 4
OP_AND == 5
OP_LDR == 6
OP_STR == 7
OP_RTI == 8
OP_NOT == 9
OP_LDI == 10
OP_STI == 11
OP_JMP == 12
OP_RES == 13
OP_LEA == 14
OP_TRAP == 15

FL_POS == 1
FL_ZRO == 2
FL_NEG == 4

TRAP_GETC == 32
TRAP_OUT == 33
TRAP_PUTS == 34
TRAP_IN == 35
TRAP_PUTSP == 36
TRAP_HALT == 37

MR_KBSR == 65024
MR_KBDR == 65026

PC_START == 12288

\* what getc/getchar return at end of input
EOF == -1

(***************************************************************************)
(* 16-bit arithmetic                                                       *)
(***************************************************************************)
\* the conversion of an int to uint16_t
u16(x) == x % 65536

\* x >> n and x << n on non-negative ints
Shr(x, n) == x \div (2 ^ n)
Shl(x, n) == x * (2 ^ n)

RECURSIVE BitAnd(_, _)
BitAnd(a, b) ==
  IF a = 0 \/ b = 0 THEN 0
  ELSE (a % 2) * (b % 2) + 2 * BitAnd(a \div 2, b \div 2)

RECURSIVE BitOr(_, _)
BitOr(a, b) ==
  IF a = 0 THEN b
  ELSE IF b = 0 THEN a
  ELSE (IF a % 2 = 1 \/ b % 2 = 1 THEN 1 ELSE 0) + 2 * BitOr(a \div 2, b \div 2)

\* ~x on an int, stored in a uint16_t
BitNot16(x) == u16((-x) - 1)

\* sign_extend without the sign: the field is returned as it is
sign_extend_zero(x, bit_count) == x

\* the low 16 bits of v << n: what a uint16_t keeps of the int.  For
\* n = 16 the int 0xFFFF << 16 does not fit a 32-bit int; the shift
\* instruction leaves zeros in the low 16 bits.
Low16Shl(v, n) == IF n >= 16 THEN 0 ELSE (v % (2 ^ (16 - n))) * (2 ^ n)

\* sign_extend that fills from one bit too high: 0xFFFF << (bit_count + 1)
sign_extend_gap(x, bit_count) ==
  IF BitAnd(Shr(x, bit_count - 1), 1) # 0
    THEN BitOr(x, Low16Shl(65535, bit_count + 1))
    ELSE x

\* uint16_t sign_extend(uint16_t x, int bit_count)
sign_extend(x, bit_count) ==
  IF BitAnd(Shr(x, bit_count - 1), 1) # 0
    THEN BitOr(x, Low16Shl(65535, bit_count))
    ELSE x

\* uint16_t swap16(uint16_t x)
swap16(x) == u16(BitOr(Shl(x, 8), Shr(x, 8)))

Min(a, b) == IF a < b THEN a ELSE b


(***************************************************************************)
(* Bounds of the model                                                     *)
(***************************************************************************)
\* words of a program image drawn from ProgWords
MaxProgLen == 2
\* instructions the run loop executes
MaxSteps == 4
\* image files on the command line
MaxImages == 2
\* words of an image drawn from LoadWords
MaxLoadWords == 2
\* bytes the keyboard delivers in a run
MaxInput == 1
\* words behind the end of the memory array a string scan is followed through
MaxOverrun == 1

\* the bytes the keyboard may deliver
InputBytes == {65, 66}
\* what a word of storage that was never initialised may hold
UninitWords == {0, 48}
\* what the storage behind the memory array may hold
OobWords == {0, 4129, 61477}

(***************************************************************************)
(* State                                                                   *)
(***************************************************************************)
VARIABLES
  memory,   \* uint16_t memory[]: address -> word, the non-zero cells only
  reg,      \* uint16_t reg[R_COUNT]
  phase,    \* where main is: "load", "run", "halted", "exited", "aborted"
  argv,     \* the image files named on the command line
  argi,     \* main's j: the images loaded so far
  inp,      \* standard input: bytes on the descriptor, bytes in stdio's buffer
  out,      \* the bytes written to standard output
  instr,    \* read_and_execute_instruction's instr: the word last fetched
  current,  \* the address the last fetch read
  running,  \* main's running: what the last step returned
  nsteps,   \* the calls of read_and_execute_instruction so far
  oob,      \* an access behind the end of the memory array has happened
  exitCode, \* the process's exit code once it has exited, -1 before
  sx        \* a call of sign_extend on its own: the arguments, the result

vars == <<memory, reg, phase, argv, argi, inp, out, instr, current, running,
          nsteps, oob, exitCode, sx>>

(***************************************************************************)
(* The memory array                                                        *)
(***************************************************************************)
\* memory[a]
Cell(mem, a) == IF a \in DOMAIN mem THEN mem[a] ELSE 0

\* memory[a] = v
Store(mem, a, v) ==
  [x \in (IF v = 0 THEN DOMAIN mem \ {a} ELSE DOMAIN mem \cup {a}) |->
     IF x = a THEN v ELSE mem[x]]

\* memory[a] read behind the end of the array: what was stored there, or
\* whatever the storage behind the array holds
OobRead(mem, a) == OobWords \cup {Cell(mem, a)}

(***************************************************************************)
(* Standard input                                                          *)
(***************************************************************************)
ByteSeqs(n) == UNION {[1..k -> InputBytes] : k \in 0..n}

\* the keyboard before a call that looks at the descriptor: more bytes may
\* have arrived, the input may have been closed
Arrivals(i) ==
  IF i.eof THEN {i}
  ELSE {[fd |-> i.fd \o s, buf |-> i.buf, eof |-> e, typed |-> i.typed + Len(s)] :
          s \in ByteSeqs(MaxInput - i.typed), e \in BOOLEAN}

\* check_key(): select() on the descriptor reports data or end of input
check_key(i) == i.fd # <<>> \/ i.eof

\* getc(stdin) / getchar() when it does not block: a byte of stdio's buffer,
\* else the descriptor's bytes are read into the buffer, else EOF
ReadChar(i) ==
  IF i.buf # <<>> THEN [c |-> Head(i.buf), inp |-> [i EXCEPT !.buf = Tail(i.buf)]]
  ELSE IF i.fd # <<>>
    THEN [c |-> Head(i.fd), inp |-> [i EXCEPT !.buf = Tail(i.fd), !.fd = <<>>]]
    ELSE [c |-> EOF, inp |-> i]

\* getc(stdin), blocking: the outcomes of the call
GetChar(i) ==
  IF i.buf # <<>> THEN {ReadChar(i)}
  ELSE {ReadChar(j) : j \in {a \in Arrivals(i) : check_key(a)}}

(***************************************************************************)
(* mem_write, mem_read                                                     *)
(***************************************************************************)
\* void mem_write(uint16_t address, uint16_t val)
mem_write(mem, address, val) == Store(mem, address, val)

\* uint16_t mem_read(uint16_t address): the outcomes
\* [val: the word returned, mem, inp, oob: the array was overrun]
mem_read(mem, i, address) ==
  IF address = MR_KBSR
    THEN {IF check_key(j)
            THEN LET g == ReadChar(j)
                 IN [val |-> Shl(1, 15),
                     mem |-> Store(Store(mem, MR_KBSR, Shl(1, 15)), MR_KBDR, u16(g.c)),
                     inp |-> g.inp, oob |-> FALSE]
            ELSE [val |-> 0, mem |-> Store(mem, MR_KBSR, 0), inp |-> j, oob |-> FALSE]
          : j \in Arrivals(i)}
  ELSE IF address >= MemSize
    THEN {[val |-> v, mem |-> mem, inp |-> i, oob |-> TRUE] : v \in OobRead(mem, address)}
    ELSE {[val |-> Cell(mem, address), mem |-> mem, inp |-> i, oob |-> FALSE]}

(***************************************************************************)
(* The image loader                                                        *)
(***************************************************************************)
\* the cells origin, origin + 1, ... of mem replaced by the words ws
Fill(mem, origin, ws) ==
  LET range == origin..(origin + Len(ws) - 1)
      full == [a \in DOMAIN mem \cup range |->
                 IF a \in range THEN ws[a - origin + 1] ELSE mem[a]]
  IN [a \in {x \in DOMAIN full : full[x] # 0} |-> full[a]]

\* void read_image_file(FILE *file): the memories it can leave.  The file
\* is its bytes; the host is little-endian.
ReadImageFile(mem, bytes) ==
  LET \* fread(&origin, sizeof(origin), 1, file)
      raws == IF Len(bytes) >= 2 THEN {bytes[1] + 256 * bytes[2]} ELSE UninitWords
      rest == IF Len(bytes) >= 2 THEN SubSeq(bytes, 3, Len(bytes)) ELSE <<>>
  IN UNION {
       LET origin == swap16(raw)
           max_read == u16(UINT16_MAX - origin)
           \* size_t read = fread(p, sizeof(uint16_t), max_read, file)
           read == Min(max_read, Len(rest) \div 2)
           filled == Fill(mem, origin,
                          [k \in 1..read |-> rest[2 * k - 1] + 256 * rest[2 * k]])
           \* a last odd byte is a partial element: the cell behind the
           \* words read keeps its value or takes the byte
           last == origin + read
           partial == {filled} \cup
                      {Store(filled, last,
                             Shl(Shr(Cell(filled, last), 8), 8) + rest[Len(rest)])}
           freads == IF read < max_read /\ Len(rest) % 2 = 1 THEN partial ELSE {filled}
           \* while (read-- > 0) { *p = swap16(*p); ++p; }
           swapped(m) == Fill(m, origin,
                              [k \in 1..read |-> swap16(Cell(m, origin + k - 1))])
       IN {swapped(m) : m \in freads}
     : raw \in raws}

(***************************************************************************)
(* Instruction decoding and the condition flags                            *)
(***************************************************************************)
\* uint16_t op = instr >> 12
Opcode(i) == Shr(i, 12)

\* (instr >> lo) & mask
Field(i, lo, mask) == BitAnd(Shr(i, lo), mask)

\* update_flags that tests the sign before zero and takes 0 for positive
update_flags_nozero(regs, r) ==
  IF Shr(regs[r], 15) # 0 THEN [regs EXCEPT ![R_COND] = FL_NEG]
  ELSE [regs EXCEPT ![R_COND] = FL_POS]

\* void update_flags(uint16_t r)
update_flags(regs, r) ==
  IF regs[r] = 0 THEN [regs EXCEPT ![R_COND] = FL_ZRO]
  ELSE IF Shr(regs[r], 15) # 0 THEN [regs EXCEPT ![R_COND] = FL_NEG]
  ELSE [regs EXCEPT ![R_COND] = FL_POS]

(***************************************************************************)
(* The texts the program prints                                            *)
(***************************************************************************)
\* puts("HALT"): "HALT\n"
HALT_MSG == <<72, 65, 76, 84, 10>>
\* "Program counter overflow!"
OVERFLOW_MSG == <<80, 114, 111, 103, 114, 97, 109, 32, 99, 111, 117, 110, 116,
                  101, 114, 32, 111, 118, 101, 114, 102, 108, 111, 119, 33>>
\* "Enter a character: "
PROMPT_MSG == <<69, 110, 116, 101, 114, 32, 97, 32, 99, 104, 97, 114, 97, 99,
                116, 101, 114, 58, 32>>
\* "failed to load image: " and the end of the line, the path left out
FAILED_MSG == <<102, 97, 105, 108, 101, 100, 32, 116, 111, 32, 108, 111, 97,
                100, 32, 105, 109, 97, 103, 101, 58, 32, 10>>
\* "lc3 --test | [image-file1] ...\n"
USAGE_MSG == <<108, 99, 51, 32, 45, 45, 116, 101, 115, 116, 32, 124, 32, 91,
               105, 109, 97, 103, 101, 45, 102, 105, 108, 101, 49, 93, 32, 46,
               46, 46, 10>>

\* putc((char)x, stdout): the byte written
PutByte(x) == x % 256


(***************************************************************************)
(* The inputs: image files and command lines                               *)
(***************************************************************************)
\* the words the program images are made of
ProgWords ==
  {
       1,  \* 0001  BR with n = z = p = 0, offset 1
    1025,  \* 0401  BRz +1
    2049,  \* 0801  BRn +1
    3585,  \* 0E01  BRnzp +1
    4095,  \* 0FFF  BRnzp -1
    4096,  \* 1000  ADD R0, R0, R0
    4129,  \* 1021  ADD R0, R0, #1
    4159,  \* 103F  ADD R0, R0, #-1
    4640,  \* 1220  ADD R1, R0, #0
    8192,  \* 2000  LD R0, #0
   12288,  \* 3000  ST R0, #0
   16384,  \* 4000  JSRR R0
   16832,  \* 41C0  JSRR R7
   18433,  \* 4801  JSR +1
   20479,  \* 4FFF  JSR -1
   20512,  \* 5020  AND R0, R0, #0
   20992,  \* 5200  AND R1, R0, R0
   21039,  \* 522F  AND R1, R0, #15
   24576,  \* 6000  LDR R0, R0, #0
   28672,  \* 7000  STR R0, R0, #0
   32768,  \* 8000  RTI
   36927,  \* 903F  NOT R0, R0
   40960,  \* A000  LDI R0, #0
   45056,  \* B000  STI R0, #0
   49152,  \* C000  JMP R0
   53248,  \* D000  RES
   57345,  \* E001  LEA R0, #1
   57855,  \* E1FF  LEA R0, #-1
   61472,  \* F020  TRAP GETC
   61473,  \* F021  TRAP OUT
   61474,  \* F022  TRAP PUTS
   61475,  \* F023  TRAP IN
   61476,  \* F024  TRAP PUTSP
   61477,  \* F025  TRAP HALT
   61478,  \* F026  TRAP 0x26, no such vector
   65024   \* FE00  TRAP 0x00, no such vector; as data the address of KBSR
  }

\* longer programs, loaded at PC_START
ScenarioProgs ==
  { <<8193, 49152, 65024>>,         \* LD R0, #1; JMP R0; .FILL xFE00
    <<8193, 49152, 65026>>,         \* LD R0, #1; JMP R0; .FILL xFE02
    <<57345, 61474, 72, 65>>,       \* LEA R0, #1; TRAP PUTS; "HA"
    <<57345, 61476, 26952, 65>>,    \* LEA R0, #1; TRAP PUTSP; "Hi" "A"
    <<8193, 61473, 321>>,           \* LD R0, #1; TRAP OUT; .FILL x0141
    <<18433, 0, 49600>>,            \* JSR +1; .FILL 0; JMP R7 (RET)
    <<40960, 65026>>,               \* LDI R0, #0; .FILL xFE02
    <<36927, 4159, 49152>>,         \* NOT R0, R0; ADD R0, R0, #-1; JMP R0
    <<8706, 24640, 24642, 65024>>,  \* LD R1, #2; LDR R0, R1, #0; LDR R0, R1, #2;
                                    \* .FILL xFE00
    <<8706, 29248, 24640, 65024>>,  \* LD R1, #2; STR R1, R1, #0; LDR R0, R1, #0;
                                    \* .FILL xFE00
    <<8706, 29248, 24640, 65026>>,  \* the same with .FILL xFE02
    <<8703, 45567, 12799, 41471>>,  \* LD R0, #-1; STI R0, #-1; ST R0, #-1;
                                    \* LDI R0, #-1
    <<36927, 4159, 28672, 61474>>,  \* NOT R0, R0; ADD R0, R0, #-1;
                                    \* STR R0, R0, #0; TRAP PUTS
    <<18433, 0, 16832>> }           \* JSR +1; .FILL 0; JSRR R7

\* the words, origins and odd last byte the loader's images are made of
LoadWords == {4660, 52651}
LoadOrigins == {12288, 65533, 65534, 65535}
LoadTails == {<<>>, <<127>>}

\* the sequences over S of at most n elements
SeqsUpTo(S, n) == UNION {[1..k -> S] : k \in 0..n}

\* an image file: the origin and the words, each big-endian, and what follows
RECURSIVE BigEndian(_)
BigEndian(ws) ==
  IF ws = <<>> THEN <<>>
  ELSE <<Head(ws) \div 256, Head(ws) % 256>> \o BigEndian(Tail(ws))

ImageFile(origin, ws, tail) == BigEndian(<<origin>>) \o BigEndian(ws) \o tail

\* a path fopen can open, with the file's bytes, and one it cannot
Image(bytes) == [open |-> TRUE, bytes |-> bytes]
NoFile == [open |-> FALSE, bytes |-> <<>>]

ProgFiles ==
  {Image(ImageFile(PC_START, ws, <<>>)) :
     ws \in SeqsUpTo(ProgWords, MaxProgLen) \cup ScenarioProgs}

LoadFiles ==
  {Image(ImageFile(o, ws, t)) :
     o \in LoadOrigins, ws \in SeqsUpTo(LoadWords, MaxLoadWords), t \in LoadTails}
  \cup {Image(<<>>), Image(<<48>>), NoFile}

\* the command lines of a run of one program, and of the loader
RunArgvs == {<<>>, <<NoFile>>} \cup {<<f>> : f \in ProgFiles}
LoadArgvs == SeqsUpTo(LoadFiles, MaxImages)

(***************************************************************************)
(* main: the start of the process                                          *)
(***************************************************************************)
EmptyMemory == [a \in {} |-> 0]

\* no call of sign_extend on its own is under way
NoCall == [x |-> 0, bit_count |-> 0, ret |-> 0, done |-> FALSE]

InitWith(argvs, calls) ==
  /\ memory = EmptyMemory
  /\ reg = [r \in 0..(R_COUNT - 1) |-> 0]
  /\ phase = "load"
  /\ argv \in argvs
  /\ argi = 0
  /\ inp = [fd |-> <<>>, buf |-> <<>>, eof |-> FALSE, typed |-> 0]
  /\ out = <<>>
  /\ instr = 0
  /\ current = 0
  /\ running = 1
  /\ nsteps = 0
  /\ oob = FALSE
  /\ exitCode = -1
  /\ sx \in calls

Init == InitWith(RunArgvs, {NoCall})
InitLoad == InitWith(LoadArgvs, {NoCall})

\* main, argc < 2: the usage line and exit(2)
Usage ==
  /\ phase = "load"
  /\ Len(argv) = 0
  /\ out' = out \o USAGE_MSG
  /\ phase' = "exited"
  /\ exitCode' = 2
  /\ UNCHANGED <<memory, reg, argv, argi, inp, instr, current, running, nsteps, oob, sx>>

\* main's for loop, read_image returning 1: the file was opened and read
LoadImage ==
  /\ phase = "load"
  /\ argi < Len(argv)
  /\ argv[argi + 1].open
  /\ memory' \in ReadImageFile(memory, argv[argi + 1].bytes)
  /\ argi' = argi + 1
  /\ UNCHANGED <<reg, phase, argv, inp, out, instr, current, running, nsteps, oob, exitCode, sx>>

\* main's for loop, read_image returning 0: fopen failed, exit(1)
LoadFail ==
  /\ phase = "load"
  /\ argi < Len(argv)
  /\ ~argv[argi + 1].open
  /\ out' = out \o FAILED_MSG
  /\ phase' = "exited"
  /\ exitCode' = 1
  /\ UNCHANGED <<memory, reg, argv, argi, inp, instr, current, running, nsteps, oob, sx>>

\* main after the for loop: reg[R_PC] = PC_START; int running = 1
StartRun ==
  /\ phase = "load"
  /\ Len(argv) >= 1
  /\ argi = Len(argv)
  /\ reg' = [reg EXCEPT ![R_PC] = PC_START]
  /\ running' = 1
  /\ phase' = "run"
  /\ UNCHANGED <<memory, argv, argi, inp, out, instr, current, nsteps, oob, exitCode, sx>>

\* main up to the run loop
NextLoad == Usage \/ LoadImage \/ LoadFail \/ StartRun

SpecLoad == InitLoad /\ [][NextLoad]_vars

(***************************************************************************)
(* sign_extend called on its own                                           *)
(***************************************************************************)
\* the bytes the words handed to sign_extend are made of
SxBytes == {0, 1, 15, 16, 63, 64, 85, 127, 128, 170, 240, 255}
SxWords == {256 * hi + lo : hi \in SxBytes, lo \in SxBytes}
SxWidths == 1..16

\* the calls to make: a word x and a width N
SxCalls ==
  {[x |-> w, bit_count |-> n, ret |-> 0, done |-> FALSE] :
     w \in SxWords, n \in SxWidths}

InitSx == InitWith({<<>>}, SxCalls)

\* sign_extend(x & ((1 << N) - 1), N)
CallSignExtend ==
  /\ ~sx.done
  /\ sx.bit_count >= 1
  /\ sx' = [sx EXCEPT
              !.ret = sign_extend(BitAnd(sx.x, Shl(1, sx.bit_count) - 1), sx.bit_count),
              !.done = TRUE]
  /\ UNCHANGED <<memory, reg, phase, argv, argi, inp, out, instr, current, running,
                 nsteps, oob, exitCode>>

NextSx == CallSignExtend

SpecSx == InitSx /\ [][NextSx]_vars


(***************************************************************************)
(* read_and_execute_instruction                                            *)
(***************************************************************************)
\* int is_max = R_PC == UINT16_MAX: the register's index is compared
is_max == (R_PC = UINT16_MAX)

\* main's while (running), the calls bounded
CanStep == phase = "run" /\ nsteps < MaxSteps

\* FETCH: uint16_t instr = mem_read(reg[R_PC]++), the outcomes of the read
Fetched == mem_read(memory, inp, reg[R_PC])

\* reg after a fetch that leaves reg[R_PC] as it was
Incremented_stale == reg

\* reg after the fetch has incremented reg[R_PC]
Incremented == [reg EXCEPT ![R_PC] = u16(reg[R_PC] + 1)]

\* the end of the function and main's assignment of its result:
\*   if (running && is_max) { printf(...); return 0; }  return running;
\* f is the fetch; regs, mem, i, o, ob are what the handler left; run is
\* the handler's running
Return(f, regs, mem, i, o, ob, run) ==
  LET overflow == run # 0 /\ is_max
      ret == IF overflow THEN 0 ELSE run
  IN /\ reg' = regs
     /\ memory' = mem
     /\ inp' = i
     /\ out' = (IF overflow THEN o \o OVERFLOW_MSG ELSE o)
     /\ oob' = (oob \/ f.oob \/ ob)
     /\ instr' = f.val
     /\ current' = reg[R_PC]
     /\ running' = ret
     /\ phase' = (IF ret # 0 THEN "run" ELSE "halted")
     /\ nsteps' = nsteps + 1
     /\ UNCHANGED <<argv, argi, exitCode, sx>>

\* the second operand taken from SR2 whatever the mode bit says
Operand2_reg(i, regs) == regs[BitAnd(i, 7)]

\* the second operand of ADD and AND
Operand2(i, regs) ==
  IF Field(i, 5, 1) # 0 THEN sign_extend(BitAnd(i, 31), 5)
  ELSE regs[BitAnd(i, 7)]

\* case OP_ADD
StepADD ==
  /\ CanStep
  /\ \E f \in Fetched :
       /\ Opcode(f.val) = OP_ADD
       /\ LET dr == Field(f.val, 9, 7)
              sr1 == Field(f.val, 6, 7)
              regs == [Incremented EXCEPT
                         ![dr] = u16(Incremented[sr1] + Operand2(f.val, Incremented))]
          IN Return(f, update_flags(regs, dr), f.mem, f.inp, out, FALSE, 1)

\* case OP_AND
StepAND ==
  /\ CanStep
  /\ \E f \in Fetched :
       /\ Opcode(f.val) = OP_AND
       /\ LET dr == Field(f.val, 9, 7)
              sr1 == Field(f.val, 6, 7)
              regs == [Incremented EXCEPT
                         ![dr] = BitAnd(Incremented[sr1], Operand2(f.val, Incremented))]
          IN Return(f, update_flags(regs, dr), f.mem, f.inp, out, FALSE, 1)

\* case OP_NOT
StepNOT ==
  /\ CanStep
  /\ \E f \in Fetched :
       /\ Opcode(f.val) = OP_NOT
       /\ LET dr == Field(f.val, 9, 7)
              sr == Field(f.val, 6, 7)
              regs == [Incremented EXCEPT ![dr] = BitNot16(Incremented[sr])]
          IN Return(f, update_flags(regs, dr), f.mem, f.inp, out, FALSE, 1)

\* BR's condition without the flags: any of the n, z, p bits is set
BranchTaken_bits(i, regs) ==
  Field(i, 11, 1) # 0 \/ Field(i, 10, 1) # 0 \/ Field(i, 9, 1) # 0

\* whether BR's condition holds: the n, z, p bits against reg[R_COND]
BranchTaken(i, regs) ==
  \/ Field(i, 11, 1) # 0 /\ BitAnd(regs[R_COND], FL_NEG) # 0
  \/ Field(i, 10, 1) # 0 /\ BitAnd(regs[R_COND], FL_ZRO) # 0
  \/ Field(i, 9, 1) # 0 /\ BitAnd(regs[R_COND], FL_POS) # 0

\* case OP_BR
StepBR ==
  /\ CanStep
  /\ \E f \in Fetched :
       /\ Opcode(f.val) = OP_BR
       /\ LET pc_offset == sign_extend(BitAnd(f.val, 511), 9)
              regs == IF BranchTaken(f.val, Incremented)
                        THEN [Incremented EXCEPT
                                ![R_PC] = u16(Incremented[R_PC] + pc_offset)]
                        ELSE Incremented
          IN Return(f, regs, f.mem, f.inp, out, FALSE, 1)

\* case OP_JMP
StepJMP ==
  /\ CanStep
  /\ \E f \in Fetched :
       /\ Opcode(f.val) = OP_JMP
       /\ LET base_r == Field(f.val, 6, 7)
              regs == [Incremented EXCEPT ![R_PC] = Incremented[base_r]]
          IN Return(f, regs, f.mem, f.inp, out, FALSE, 1)

\* case OP_JSR with the base register read before R7 is written
StepJSR_late ==
  /\ CanStep
  /\ \E f \in Fetched :
       /\ Opcode(f.val) = OP_JSR
       /\ LET pc_offset == sign_extend(BitAnd(f.val, 2047), 11)
              base_r == Field(f.val, 6, 7)
              target == IF Field(f.val, 11, 1) # 0
                          THEN u16(Incremented[R_PC] + pc_offset)
                          ELSE Incremented[base_r]
              regs == [Incremented EXCEPT ![R_R7] = Incremented[R_PC], ![R_PC] = target]
          IN Return(f, regs, f.mem, f.inp, out, FALSE, 1)

\* case OP_JSR
StepJSR ==
  /\ CanStep
  /\ \E f \in Fetched :
       /\ Opcode(f.val) = OP_JSR
       /\ LET saved == [Incremented EXCEPT ![R_R7] = Incremented[R_PC]]
              pc_offset == sign_extend(BitAnd(f.val, 2047), 11)
              base_r == Field(f.val, 6, 7)
              regs == IF Field(f.val, 11, 1) # 0
                        THEN [saved EXCEPT ![R_PC] = u16(saved[R_PC] + pc_offset)]
                        ELSE [saved EXCEPT ![R_PC] = saved[base_r]]
          IN Return(f, regs, f.mem, f.inp, out, FALSE, 1)

\* case OP_LD
StepLD ==
  /\ CanStep
  /\ \E f \in Fetched :
       /\ Opcode(f.val) = OP_LD
       /\ LET dr == Field(f.val, 9, 7)
              pc_offset == sign_extend(BitAnd(f.val, 511), 9)
          IN \E g \in mem_read(f.mem, f.inp, u16(Incremented[R_PC] + pc_offset)) :
               Return(f, update_flags([Incremented EXCEPT ![dr] = g.val], dr),
                      g.mem, g.inp, out, g.oob, 1)

\* case OP_LDI
StepLDI ==
  /\ CanStep
  /\ \E f \in Fetched :
       /\ Opcode(f.val) = OP_LDI
       /\ LET dr == Field(f.val, 9, 7)
              pc_offset == sign_extend(BitAnd(f.val, 511), 9)
          IN \E g \in mem_read(f.mem, f.inp, u16(Incremented[R_PC] + pc_offset)) :
               \E h \in mem_read(g.mem, g.inp, g.val) :
                 Return(f, update_flags([Incremented EXCEPT ![dr] = h.val], dr),
                        h.mem, h.inp, out, g.oob \/ h.oob, 1)

\* case OP_LDR
StepLDR ==
  /\ CanStep
  /\ \E f \in Fetched :
       /\ Opcode(f.val) = OP_LDR
       /\ LET dr == Field(f.val, 9, 7)
              base_r == Field(f.val, 6, 7)
              offset == sign_extend(BitAnd(f.val, 63), 6)
          IN \E g \in mem_read(f.mem, f.inp, u16(Incremented[base_r] + offset)) :
               Return(f, update_flags([Incremented EXCEPT ![dr] = g.val], dr),
                      g.mem, g.inp, out, g.oob, 1)

\* case OP_LEA
StepLEA ==
  /\ CanStep
  /\ \E f \in Fetched :
       /\ Opcode(f.val) = OP_LEA
       /\ LET dr == Field(f.val, 9, 7)
              pc_offset == sign_extend(BitAnd(f.val, 511), 9)
              regs == [Incremented EXCEPT ![dr] = u16(Incremented[R_PC] + pc_offset)]
          IN Return(f, update_flags(regs, dr), f.mem, f.inp, out, FALSE, 1)

\* case OP_ST
StepST ==
  /\ CanStep
  /\ \E f \in Fetched :
       /\ Opcode(f.val) = OP_ST
       /\ LET sr == Field(f.val, 9, 7)
              pc_offset == sign_extend(BitAnd(f.val, 511), 9)
              address == u16(Incremented[R_PC] + pc_offset)
          IN Return(f, Incremented, mem_write(f.mem, address, Incremented[sr]),
                    f.inp, out, address >= MemSize, 1)

\* case OP_STI
StepSTI ==
  /\ CanStep
  /\ \E f \in Fetched :
       /\ Opcode(f.val) = OP_STI
       /\ LET sr == Field(f.val, 9, 7)
              pc_offset == sign_extend(BitAnd(f.val, 511), 9)
          IN \E g \in mem_read(f.mem, f.inp, u16(Incremented[R_PC] + pc_offset)) :
               Return(f, Incremented, mem_write(g.mem, g.val, Incremented[sr]),
                      g.inp, out, g.oob \/ g.val >= MemSize, 1)

\* case OP_STR
StepSTR ==
  /\ CanStep
  /\ \E f \in Fetched :
       /\ Opcode(f.val) = OP_STR
       /\ LET sr == Field(f.val, 9, 7)
              base_r == Field(f.val, 6, 7)
              offset == sign_extend(BitAnd(f.val, 63), 6)
              address == u16(Incremented[base_r] + offset)
          IN Return(f, Incremented, mem_write(f.mem, address, Incremented[sr]),
                    f.inp, out, address >= MemSize, 1)

\* case OP_RES, case OP_RTI ending in break
StepIllegal_skip ==
  /\ CanStep
  /\ \E f \in Fetched :
       /\ Opcode(f.val) \in {OP_RES, OP_RTI}
       /\ Return(f, Incremented, f.mem, f.inp, out, FALSE, 1)

\* case OP_RES, case OP_RTI, default: abort()
StepIllegal ==
  /\ CanStep
  /\ \E f \in Fetched :
       /\ Opcode(f.val) \in {OP_RES, OP_RTI}
       /\ reg' = Incremented
       /\ memory' = f.mem
       /\ inp' = f.inp
       /\ oob' = (oob \/ f.oob)
       /\ instr' = f.val
       /\ current' = reg[R_PC]
       /\ phase' = "aborted"
       /\ nsteps' = nsteps + 1
       /\ UNCHANGED <<argv, argi, out, running, exitCode, sx>>


(***************************************************************************)
(* case OP_TRAP                                                            *)
(***************************************************************************)
\* switch (instr & 0xFF)
Vector(i) == BitAnd(i, 255)

TrapVectors == {TRAP_GETC, TRAP_OUT, TRAP_PUTS, TRAP_IN, TRAP_PUTSP, TRAP_HALT}

\* the loop of TRAP_PUTS and TRAP_PUTSP over uint16_t *word = memory + a:
\* the words it can read up to the first zero word, and whether it ran
\* behind the end of the array (the pointer does not wrap)
RECURSIVE Scan(_, _)
Scan(mem, a) ==
  IF a < MemSize
    THEN IF Cell(mem, a) = 0
           THEN {[words |-> <<>>, oob |-> FALSE]}
           ELSE {[words |-> <<Cell(mem, a)>> \o r.words, oob |-> r.oob] :
                   r \in Scan(mem, a + 1)}
  ELSE IF a >= MemSize + MaxOverrun
    THEN {[words |-> <<>>, oob |-> TRUE]}
    ELSE UNION {IF v = 0
                  THEN {[words |-> <<>>, oob |-> TRUE]}
                  ELSE {[words |-> <<v>> \o r.words, oob |-> TRUE] :
                          r \in Scan(mem, a + 1)}
                : v \in OobRead(mem, a)}

\* what TRAP_PUTS writes for the words: putc((char)(*word & 0x8), stdout)
RECURSIVE PutsBytes(_)
PutsBytes(ws) ==
  IF ws = <<>> THEN <<>>
  ELSE <<PutByte(BitAnd(Head(ws), 8))>> \o PutsBytes(Tail(ws))

\* what TRAP_PUTSP writes for the words: the same, then the high byte if
\* it is not zero
RECURSIVE PutspBytes(_)
PutspBytes(ws) ==
  IF ws = <<>> THEN <<>>
  ELSE <<PutByte(BitAnd(Head(ws), 8))>>
       \o (IF PutByte(Shr(Head(ws), 8)) # 0 THEN <<PutByte(Shr(Head(ws), 8))>> ELSE <<>>)
       \o PutspBytes(Tail(ws))

\* case TRAP_GETC followed by update_flags(R_R0)
TrapGETC_flags ==
  /\ CanStep
  /\ \E f \in Fetched :
       /\ Opcode(f.val) = OP_TRAP /\ Vector(f.val) = TRAP_GETC
       /\ \E g \in GetChar(f.inp) :
            Return(f, update_flags([Incremented EXCEPT ![R_R0] = u16(g.c)], R_R0),
                   f.mem, g.inp, out, FALSE, 1)

\* case TRAP_GETC
TrapGETC ==
  /\ CanStep
  /\ \E f \in Fetched :
       /\ Opcode(f.val) = OP_TRAP /\ Vector(f.val) = TRAP_GETC
       /\ \E g \in GetChar(f.inp) :
            Return(f, [Incremented EXCEPT ![R_R0] = u16(g.c)], f.mem, g.inp, out, FALSE, 1)

\* case TRAP_OUT
TrapOUT ==
  /\ CanStep
  /\ \E f \in Fetched :
       /\ Opcode(f.val) = OP_TRAP /\ Vector(f.val) = TRAP_OUT
       /\ LET c == PutByte(Incremented[BitAnd(R_R0, 8)])
          IN Return(f, Incremented, f.mem, f.inp, out \o <<c>>, FALSE, 1)

\* case TRAP_PUTS
TrapPUTS ==
  /\ CanStep
  /\ \E f \in Fetched :
       /\ Opcode(f.val) = OP_TRAP /\ Vector(f.val) = TRAP_PUTS
       /\ \E s \in Scan(f.mem, Incremented[R_R0]) :
            Return(f, Incremented, f.mem, f.inp, out \o PutsBytes(s.words), s.oob, 1)

\* case TRAP_IN
TrapIN ==
  /\ CanStep
  /\ \E f \in Fetched :
       /\ Opcode(f.val) = OP_TRAP /\ Vector(f.val) = TRAP_IN
       /\ \E g \in GetChar(f.inp) :
            Return(f, [Incremented EXCEPT ![R_R0] = u16(g.c)], f.mem, g.inp,
                   out \o PROMPT_MSG \o <<PutByte(u16(g.c))>>, FALSE, 1)

\* case TRAP_PUTSP
TrapPUTSP ==
  /\ CanStep
  /\ \E f \in Fetched :
       /\ Opcode(f.val) = OP_TRAP /\ Vector(f.val) = TRAP_PUTSP
       /\ \E s \in Scan(f.mem, Incremented[R_R0]) :
            Return(f, Incremented, f.mem, f.inp, out \o PutspBytes(s.words), s.oob, 1)

\* case TRAP_HALT with running left 1
TrapHALT_continue ==
  /\ CanStep
  /\ \E f \in Fetched :
       /\ Opcode(f.val) = OP_TRAP /\ Vector(f.val) = TRAP_HALT
       /\ Return(f, Incremented, f.mem, f.inp, out \o HALT_MSG, FALSE, 1)

\* case TRAP_HALT
TrapHALT ==
  /\ CanStep
  /\ \E f \in Fetched :
       /\ Opcode(f.val) = OP_TRAP /\ Vector(f.val) = TRAP_HALT
       /\ Return(f, Incremented, f.mem, f.inp, out \o HALT_MSG, FALSE, 0)

\* case OP_TRAP with a vector the inner switch has no case for: the switch
\* has no default, the break after it ends the instruction
TrapOther ==
  /\ CanStep
  /\ \E f \in Fetched :
       /\ Opcode(f.val) = OP_TRAP /\ Vector(f.val) \notin TrapVectors
       /\ Return(f, Incremented, f.mem, f.inp, out, FALSE, 1)

(***************************************************************************)
(* main after the run loop                                                 *)
(***************************************************************************)
\* restore_input_buffering(); main returns 0
Exit ==
  /\ phase = "halted"
  /\ phase' = "exited"
  /\ exitCode' = 0
  /\ UNCHANGED <<memory, reg, argv, argi, inp, out, instr, current, running, nsteps, oob, sx>>

Next ==
  \/ Usage \/ LoadImage \/ LoadFail \/ StartRun
  \/ StepADD \/ StepAND \/ StepNOT \/ StepBR \/ StepJMP \/ StepJSR
  \/ StepLD \/ StepLDI \/ StepLDR \/ StepLEA \/ StepST \/ StepSTI \/ StepSTR
  \/ TrapGETC \/ TrapOUT \/ TrapPUTS \/ TrapIN \/ TrapPUTSP \/ TrapHALT \/ TrapOther
  \/ StepIllegal
  \/ Exit

Spec == Init /\ [][Next]_vars


(***************************************************************************)
(* What the claims are stated with                                         *)
(***************************************************************************)
\* this step is a call of read_and_execute_instruction; after it instr is
\* the word it fetched and current the address it fetched from
Stepped == nsteps' = nsteps + 1

\* the fields of an instruction word
DRof(i) == (i \div 512) % 8
SR1of(i) == (i \div 64) % 8
SR2of(i) == i % 8

\* the 5-bit field f as a 16-bit two's-complement word
Sx5(f) == IF f >= 16 THEN f + 65504 ELSE f

\* the flag for the word v: N if bit 15 is 1, Z if v is 0, P otherwise
FlagFor(v) == IF v >= 32768 THEN FL_NEG ELSE IF v = 0 THEN FL_ZRO ELSE FL_POS

FlagSetting == {OP_ADD, OP_AND, OP_NOT, OP_LD, OP_LDI, OP_LDR, OP_LEA}

\* out ends with msg
EndsWith(o, msg) ==
  Len(o) >= Len(msg) /\ SubSeq(o, Len(o) - Len(msg) + 1, Len(o)) = msg

\* the instruction i, executed with the flags of regs, did not write PC
\* and did not halt or abort
Sequential(i, regs) ==
  /\ Opcode(i) \notin {OP_JMP, OP_JSR, OP_RTI, OP_RES}
  /\ ~(Opcode(i) = OP_BR /\ BranchTaken(i, regs))
  /\ ~(Opcode(i) = OP_TRAP /\ Vector(i) = TRAP_HALT)

(***************************************************************************)
(* C1: a step that fetched at 0xFFFF an instruction that neither writes PC *)
(* nor halts returns 'not running' with the "Program counter overflow!"    *)
(* diagnostic, so that no fetch at 0x0000 follows the wrap.                *)
(***************************************************************************)
C1_OverflowStops ==
  (nsteps > 0 /\ current = 65535 /\ Sequential(instr, reg))
    => (running = 0 /\ phase # "run" /\ EndsWith(out, OVERFLOW_MSG))

(***************************************************************************)
(* C2: a TRAP HALT step appends "HALT\n" to the output and returns 0; no   *)
(* other trap vector's step returns 0; and once the run loop has ended no  *)
(* instruction is fetched and registers and memory do not change.          *)
(***************************************************************************)
C2_HaltStops ==
  [][ /\ (Stepped /\ Opcode(instr') = OP_TRAP /\ Vector(instr') = 37)
          => (out' = out \o <<72, 65, 76, 84, 10>> /\ running' = 0 /\ phase' = "halted")
      /\ (Stepped /\ Opcode(instr') = OP_TRAP /\ Vector(instr') # 37)
          => (running' = 1 /\ phase' = "run")
      /\ (phase \in {"halted", "exited"})
          => (nsteps' = nsteps /\ reg' = reg /\ memory' = memory /\ phase' = "exited")
    ]_vars

\* the process has left the run loop through a HALT and exited with code 0
C2_Witness ==
  /\ phase = "exited" /\ exitCode = 0 /\ running = 0
  /\ instr = 61477 /\ EndsWith(out, HALT_MSG)

(***************************************************************************)
(* C3: right after a flag-setting instruction (ADD, AND, NOT, LD, LDI,     *)
(* LDR, LEA) COND is N if bit 15 of the new R[DR] is 1, Z if R[DR] = 0 and *)
(* P otherwise; and once COND is one of N, Z, P it stays one of them.      *)
(***************************************************************************)
C3_Flags ==
  [][ /\ (Stepped /\ Opcode(instr') \in FlagSetting)
          => reg'[R_COND] = FlagFor(reg'[DRof(instr')])
      /\ (reg[R_COND] \in {4, 2, 1}) => (reg'[R_COND] \in {4, 2, 1})
    ]_vars

\* AND R0, R0, #0 has just set Z, after an instruction that had set N
C3_Witness ==
  /\ nsteps = 2 /\ instr = 20512 /\ reg[R_R0] = 0 /\ reg[R_COND] = FL_ZRO
  /\ Cell(memory, PC_START) = 36927

(***************************************************************************)
(* C4: a BR, JMP, JSR/JSRR, ST, STI, STR or TRAP step leaves COND as it    *)
(* was before the step.                                                    *)
(***************************************************************************)
C4_CondPreserved ==
  [][ (Stepped /\ Opcode(instr') \in {OP_BR, OP_JMP, OP_JSR, OP_ST, OP_STI, OP_STR, OP_TRAP})
        => reg'[R_COND] = reg[R_COND]
    ]_vars

\* TRAP GETC has read the byte 65 into R0 while COND still is the N that
\* NOT R0, R0 had set
C4_Witness ==
  /\ nsteps = 2 /\ instr = 61472 /\ reg[R_R0] = 65 /\ reg[R_COND] = FL_NEG

(***************************************************************************)
(* C5: a step aborts the VM exactly when the opcode of the instruction it  *)
(* fetched is 1000 (RTI) or 1101 (RES); after the abort no instruction is  *)
(* fetched and nothing runs.                                               *)
(***************************************************************************)
C5_IllegalOpcodeAborts ==
  [][ /\ Stepped => ((phase' = "aborted") <=> (instr' \div 4096 \in {8, 13}))
      /\ (phase = "aborted") => (phase' = "aborted" /\ nsteps' = nsteps)
    ]_vars

\* the VM has aborted on RES, fetched as the second instruction
C5_Witness ==
  phase = "aborted" /\ instr = 53248 /\ nsteps = 2 /\ current = PC_START + 1

(***************************************************************************)
(* C6: a TRAP step whose vector is none of 0x20..0x25 aborts the VM.       *)
(***************************************************************************)
C6_IllegalTrapAborts ==
  [][ (Stepped /\ Opcode(instr') = OP_TRAP /\ Vector(instr') \notin 32..37)
        => phase' = "aborted"
    ]_vars

(***************************************************************************)
(* C7: a step on ADD, AND or NOT fetched at address a returns 1, sets      *)
(* PC = (a + 1) mod 2^16 and R[DR] to the sum mod 2^16, the bitwise and    *)
(* (of R[SR1] and R[SR2] or the sign-extended imm5) or the complement of   *)
(* R[SR], sets COND from the new R[DR] and leaves the other general        *)
(* registers and all memory unchanged.                                     *)
(***************************************************************************)
C7_Alu ==
  [][ (Stepped /\ Opcode(instr') \in {OP_ADD, OP_AND, OP_NOT}) =>
        LET i == instr'
            op2 == IF (i \div 32) % 2 = 1 THEN Sx5(i % 32) ELSE reg[SR2of(i)]
            result == IF Opcode(i) = OP_ADD THEN (reg[SR1of(i)] + op2) % 65536
                      ELSE IF Opcode(i) = OP_AND THEN BitAnd(reg[SR1of(i)], op2)
                      ELSE 65535 - reg[SR1of(i)]
        IN /\ running' = 1 /\ phase' = "run"
           /\ current' = reg[R_PC]
           /\ reg'[R_PC] = (current' + 1) % 65536
           /\ reg'[DRof(i)] = result
           /\ reg'[R_COND] = FlagFor(result)
           /\ \A r \in 0..7 : r # DRof(i) => reg'[r] = reg[r]
           /\ memory' = memory
    ]_vars

\* ADD R0, R0, #-1 on R0 = 0xFFFF has left 0xFFFE and N
C7_Witness ==
  /\ nsteps = 2 /\ instr = 4159 /\ current = PC_START + 1
  /\ reg[R_R0] = 65534 /\ reg[R_COND] = FL_NEG /\ reg[R_PC] = PC_START + 2

(***************************************************************************)
(* C8: a TRAP step, whatever its vector, leaves in R7 the incremented PC:  *)
(* R7 = (a + 1) mod 2^16 for the fetch address a.                          *)
(***************************************************************************)
C8_TrapSavesR7 ==
  [][ (Stepped /\ Opcode(instr') = OP_TRAP) => reg'[R_R7] = (current' + 1) % 65536
    ]_vars

(***************************************************************************)
(* C9: loading an image of origin o and whole big-endian words w_0 ..      *)
(* w_(k-1) stores w_i at memory[o + i] for every i < min(k, 0x10000 - o),  *)
(* up to and including address 0xFFFF, and leaves every other cell as it   *)
(* was.                                                                    *)
(***************************************************************************)
C9_LoadFillsToTop ==
  [][ (/\ phase = "load" /\ argi' = argi + 1
       /\ Len(argv[argi + 1].bytes) >= 2
       /\ Len(argv[argi + 1].bytes) % 2 = 0) =>
        LET bytes == argv[argi + 1].bytes
            origin == bytes[1] * 256 + bytes[2]
            k == (Len(bytes) - 2) \div 2
            w(j) == bytes[3 + 2 * j] * 256 + bytes[4 + 2 * j]
            n == Min(k, 65536 - origin)
        IN /\ \A j \in 0..(n - 1) : Cell(memory', origin + j) = w(j)
           /\ \A a \in (DOMAIN memory \cup DOMAIN memory') \ (origin..(origin + n - 1)) :
                Cell(memory', a) = Cell(memory, a)
    ]_vars

(***************************************************************************)
(* C10: an image file that opens but holds fewer than 2 bytes is a load    *)
(* failure: memory stays as it was and the process exits with code 1       *)
(* instead of going on to the run loop.                                    *)
(***************************************************************************)
C10_TruncatedImageFails ==
  [][ (/\ phase = "load" /\ argi < Len(argv)
       /\ argv[argi + 1].open /\ Len(argv[argi + 1].bytes) < 2)
        => (phase' = "exited" /\ exitCode' = 1 /\ memory' = memory)
    ]_vars

\* the n-bit field f as a 16-bit two's-complement word
Sx(f, n) == IF f >= 2 ^ (n - 1) THEN f + 65536 - 2 ^ n ELSE f

\* the bytes of the keyboard not yet handed to the program
KbdPending(i) == Len(i.buf) + Len(i.fd)

(***************************************************************************)
(* C11: every fetch, mem_read and mem_write, whatever its 16-bit address,  *)
(* is an access inside the memory array: no run ever touches storage       *)
(* behind the array's last cell.                                           *)
(***************************************************************************)
C11_AllAccessesInBounds == oob = FALSE

(***************************************************************************)
(* C12: an LDR step that reads KBSR (0xFE00) polls the keyboard: with a    *)
(* byte b pending it consumes exactly one byte, loads a word with bit 15   *)
(* set and leaves b in KBDR; with no byte pending it consumes nothing and  *)
(* loads 0.  An LDR step that reads KBDR (0xFE02) loads the byte the last  *)
(* poll left there, and an LDR step that reads any address but KBSR        *)
(* consumes no input and changes no memory.                                *)
(***************************************************************************)
C12_KbsrPoll ==
  [][ (Stepped /\ Opcode(instr') = OP_LDR /\ current' # 65024) =>
        LET a == (reg[SR1of(instr')] + Sx(instr' % 64, 6)) % 65536
            pending == KbdPending(inp) + (inp'.typed - inp.typed)
            consumed == pending - KbdPending(inp')
        IN IF a = 65024
             THEN IF pending > 0
                    THEN /\ consumed = 1
                         /\ reg'[DRof(instr')] >= 32768
                         /\ Cell(memory', 65026) \in 0..255
                         /\ KbdPending(inp) > 0
                              => Cell(memory', 65026) = Head(inp.buf \o inp.fd)
                    ELSE /\ consumed = 0
                         /\ reg'[DRof(instr')] = 0
             ELSE /\ inp' = inp
                  /\ memory' = memory
                  /\ a = 65026 => reg'[DRof(instr')] = Cell(memory, 65026)
    ]_vars

(***************************************************************************)
(* C13: what a read of KBSR or KBDR returns comes from the keyboard, not   *)
(* from what a program stored there: an LDR step that reads KBSR loads 0   *)
(* or 0x8000, and an LDR step that reads KBDR loads what a poll can have   *)
(* left there (0 before any poll, a byte of input, 0xFFFF at end of        *)
(* input), whatever ST, STI or STR wrote to the address before.            *)
(***************************************************************************)
C13_DeviceWritesMeaningless ==
  [][ (Stepped /\ Opcode(instr') = OP_LDR /\ current' # 65024) =>
        LET a == (reg[SR1of(instr')] + Sx(instr' % 64, 6)) % 65536
        IN /\ a = 65024 => reg'[DRof(instr')] \in {0, 32768}
           /\ a = 65026 => reg'[DRof(instr')] \in (0..255) \cup {65535}
    ]_vars

\* the words from address a up to the first zero word, addresses taken
\* modulo 2^16, at most fuel of them
RECURSIVE StringAt(_, _, _)
StringAt(mem, a, fuel) ==
  IF fuel = 0 \/ Cell(mem, a) = 0 THEN <<>>
  ELSE <<Cell(mem, a)>> \o StringAt(mem, (a + 1) % 65536, fuel - 1)

\* the string the cells of mem hold at address a
StringOf(mem, a) == StringAt(mem, a, Cardinality(DOMAIN mem) + 1)

\* one character per word: the low 8 bits of each
LowBytes(ws) == [k \in 1..Len(ws) |-> ws[k] % 256]

\* two characters per word: the low 8 bits, then the high 8 bits if not zero
RECURSIVE PackedBytes(_)
PackedBytes(ws) ==
  IF ws = <<>> THEN <<>>
  ELSE <<Head(ws) % 256>>
       \o (IF Head(ws) \div 256 # 0 THEN <<Head(ws) \div 256>> ELSE <<>>)
       \o PackedBytes(Tail(ws))

(***************************************************************************)
(* C14: TRAP OUT appends R0 & 0xFF to the output; TRAP PUTS with R0 = a    *)
(* appends mem[a+i] & 0xFF for each word before the first zero word, in    *)
(* order; TRAP PUTSP appends for each such word its low byte and then its  *)
(* high byte when that is not zero.  (Strings that end below 0xFFFF.)      *)
(***************************************************************************)
C14_OutputLowBytes ==
  [][ (Stepped /\ Opcode(instr') = OP_TRAP) =>
        LET ws == StringOf(memory', reg[R_R0])
            below == reg[R_R0] + Len(ws) < 65535
        IN /\ Vector(instr') = 33 => out' = out \o <<reg[R_R0] % 256>>
           /\ (Vector(instr') = 34 /\ below) => out' = out \o LowBytes(ws)
           /\ (Vector(instr') = 36 /\ below) => out' = out \o PackedBytes(ws)
    ]_vars

\* the instruction i is in immediate mode with imm5 = 0
ImmZero(i) == (i \div 32) % 2 = 1 /\ i % 32 = 0

(***************************************************************************)
(* C15, as stated: an ADD or AND step in immediate mode with imm5 = 0 is   *)
(* a register copy: R[DR] becomes the value R[SR1] held before the step    *)
(* and COND the flag of that value.                                        *)
(***************************************************************************)
C15_ImmZeroCopies ==
  [][ (Stepped /\ Opcode(instr') \in {OP_ADD, OP_AND} /\ ImmZero(instr')) =>
        /\ reg'[DRof(instr')] = reg[SR1of(instr')]
        /\ reg'[R_COND] = FlagFor(reg[SR1of(instr')])
    ]_vars

(***************************************************************************)
(* C15, amended: an ADD step in immediate mode with imm5 = 0 is a register *)
(* copy (R[DR] becomes the old R[SR1], COND its flag); an AND step in      *)
(* immediate mode with imm5 = 0 clears R[DR] and sets COND to Z.           *)
(***************************************************************************)
C15_AddZeroCopies ==
  [][ (Stepped /\ Opcode(instr') \in {OP_ADD, OP_AND} /\ ImmZero(instr')) =>
        IF Opcode(instr') = OP_ADD
          THEN /\ reg'[DRof(instr')] = reg[SR1of(instr')]
               /\ reg'[R_COND] = FlagFor(reg[SR1of(instr')])
          ELSE /\ reg'[DRof(instr')] = 0
               /\ reg'[R_COND] = FL_ZRO
    ]_vars

\* ADD R1, R0, #0 has copied the 0xFFFF that ADD R0, R0, #-1 left in R0
C15_Witness ==
  /\ nsteps = 2 /\ instr = 4640
  /\ reg[1] = 65535 /\ reg[R_R0] = 65535 /\ reg[R_COND] = FL_NEG

\* the address x is a cell of the array that a read returns as it is
Ordinary(x) == x < 65535 /\ x # 65024

(***************************************************************************)
(* C16: for an instruction fetched at address a, with t9 = (a + 1 +        *)
(* sx9(off)) mod 2^16: LEA sets R[DR] = t9; LD loads the cell t9 and ST    *)
(* stores to it; LDI loads and STI stores through the pointer held in the  *)
(* cell t9; a taken BR sets PC = t9; JSR sets PC = (a + 1 + sx11(off))     *)
(* mod 2^16; a BR with n = z = p = 0 leaves PC = (a + 1) mod 2^16.         *)
(* (Loads are stated for cells of the array other than KBSR, and for       *)
(* instructions not fetched from KBSR.)                                    *)
(***************************************************************************)
C16_PcRelative ==
  [][ Stepped =>
        LET i == instr'
            a == current'
            op == i \div 4096
            t9 == (a + 1 + Sx(i % 512, 9)) % 65536
            t11 == (a + 1 + Sx(i % 2048, 11)) % 65536
            ptr == Cell(memory, t9)
        IN /\ op = 14 => reg'[DRof(i)] = t9
           /\ (op = 2 /\ a # 65024 /\ Ordinary(t9)) => reg'[DRof(i)] = Cell(memory, t9)
           /\ (op = 3 /\ a # 65024) => memory' = Store(memory, t9, reg[DRof(i)])
           /\ (op = 10 /\ a # 65024 /\ Ordinary(t9) /\ Ordinary(ptr))
                => reg'[DRof(i)] = Cell(memory, ptr)
           /\ (op = 11 /\ a # 65024 /\ Ordinary(t9))
                => memory' = Store(memory, ptr, reg[DRof(i)])
           /\ (op = 0 /\ BitAnd(DRof(i), reg[R_COND]) # 0) => reg'[R_PC] = t9
           /\ (op = 0 /\ DRof(i) = 0) => reg'[R_PC] = (a + 1) % 65536
           /\ (op = 4 /\ (i \div 2048) % 2 = 1) => reg'[R_PC] = t11
    ]_vars

\* STI R0, #-1, fetched at 0x3001, has stored R0 through the pointer it
\* found in its own cell
C16_Witness ==
  /\ nsteps = 2 /\ instr = 45567 /\ current = PC_START + 1
  /\ reg[R_R0] = 8703 /\ Cell(memory, 45567) = 8703

\* the 16-bit word r read as a two's-complement number
Signed16(r) == IF r >= 32768 THEN r - 65536 ELSE r

\* the low n bits of x read as an n-bit two's-complement number
SignedLow(x, n) ==
  IF x % (2 ^ n) >= 2 ^ (n - 1) THEN (x % (2 ^ n)) - 2 ^ n ELSE x % (2 ^ n)

(***************************************************************************)
(* C17: for a 16-bit x and a width N in 1..16, sign_extend(x & ((1 << N)   *)
(* - 1), N) read as a 16-bit two's-complement number is the low N bits of  *)
(* x read as an N-bit two's-complement number, and its bits 0..N-1 are     *)
(* those of x.                                                             *)
(***************************************************************************)
C17_SignExtend ==
  sx.done =>
    /\ Signed16(sx.ret) = SignedLow(sx.x, sx.bit_count)
    /\ sx.ret % (2 ^ sx.bit_count) = sx.x % (2 ^ sx.bit_count)

\* x = 0x55FF and N = 9: the field 0x1FF has been extended to 0xFFFF, -1
C17_Witness ==
  sx.done /\ sx.x = 22015 /\ sx.bit_count = 9 /\ sx.ret = 65535

(***************************************************************************)
(* C18: a TRAP PUTS or TRAP PUTSP step reads only cells of the memory: it  *)
(* touches no storage behind the array, and PUTS writes one character for  *)
(* each word from R0 up to the first zero word, the addresses taken        *)
(* modulo 2^16.  (For an instruction fetched inside the array, in a run    *)
(* that has not left the array before.)                                    *)
(***************************************************************************)
C18_ScanInBounds ==
  [][ (/\ Stepped /\ Opcode(instr') = OP_TRAP /\ Vector(instr') \in {34, 36}
       /\ ~oob /\ current' < 65535) =>
        /\ ~oob'
        /\ Vector(instr') = 34
             => Len(out') = Len(out) + Len(StringOf(memory', reg[R_R0]))
    ]_vars

(***************************************************************************)
(* C19: in a run started by main COND is 0 until the first flag-setting    *)
(* instruction has executed, and until then every BR step, whatever its    *)
(* n, z, p bits, falls through: PC after the step is the fetch address     *)
(* + 1.                                                                    *)
(***************************************************************************)
C19_EarlyBranchFallsThrough ==
  [][ /\ (Stepped /\ reg[R_COND] = 0 /\ Opcode(instr') \notin FlagSetting)
          => reg'[R_COND] = 0
      /\ (Stepped /\ reg[R_COND] = 0 /\ Opcode(instr') = OP_BR)
          => reg'[R_PC] = (current' + 1) % 65536
    ]_vars

\* BRnzp +1, the first instruction of the run, has fallen through to 0x3001
C19_Witness ==
  /\ nsteps = 1 /\ instr = 3585 /\ current = PC_START
  /\ reg[R_PC] = PC_START + 1 /\ reg[R_COND] = 0

(***************************************************************************)
(* C20: a JSRR step fetched at address a leaves R7 = (a + 1) mod 2^16;     *)
(* with BaseR = R7 it also leaves PC = (a + 1) mod 2^16, the value R7      *)
(* held before being lost; with another BaseR it leaves PC = the old       *)
(* R[BaseR].                                                               *)
(***************************************************************************)
C20_JsrrLinksFirst ==
  [][ (Stepped /\ Opcode(instr') = OP_JSR /\ (instr' \div 2048) % 2 = 0) =>
        /\ reg'[R_R7] = (current' + 1) % 65536
        /\ reg'[R_PC] = IF SR1of(instr') = 7 THEN (current' + 1) % 65536
                        ELSE reg[SR1of(instr')]
    ]_vars

\* JSRR R7 at 0x3002, after JSR +1 had left 0x3001 in R7: PC and R7 are
\* both 0x3003
C20_Witness ==
  /\ nsteps = 2 /\ instr = 16832 /\ current = PC_START + 2
  /\ reg[R_R7] = PC_START + 3 /\ reg[R_PC] = PC_START + 3

=============================================================================
